---- MODULE Spec2Model ----
(***************************************************************************)
(* Model of git_zevent_place_fun_async.py: the sector driver               *)
(* get_level_data, the batch coordinator get_level_data_concurrent and the *)
(* per-pixel fetcher fetch_pixel_level, with the asyncio tasks of a batch  *)
(* interleaved at their suspension points.  Spec runs sectors of a few     *)
(* pixels, whose tasks interleave in every order; SpecPlan applies the     *)
(* batching arithmetic to sectors of the whole canvas, and SpecCopy the    *)
(* column copy of line 165 to sectors of more than max_conc_req pixels.    *)
(***************************************************************************)
EXTENDS Integers, Sequences, FiniteSets, TLC

(***************************************************************************)
(* Program constants and model bounds.                                     *)
(***************************************************************************)
\* is_valid, line 129: max_x, max_y = 700, 700
max_x == 700
max_y == 700

\* line 151: max_conc_req = 10000
max_conc_req == 10000

\* Largest height and width, and largest number of pixels, of the sectors
\* whose tasks are interleaved task by task.
MaxSide == 3
MaxPixels == 4

\* Coordinates the sectors are drawn from: around the origin and around the
\* canvas edge.
Coords == (-1 .. MaxSide) \cup ((max_x - 1) .. (max_x + 1))

\* Sectors given to get_level_data (valid and invalid ones).
Sectors ==
    {s \in Coords \X Coords \X Coords \X Coords :
        /\ s[3] - s[1] <= MaxSide /\ s[4] - s[2] <= MaxSide
        /\ \/ s[3] - s[1] <= 0
           \/ s[4] - s[2] <= 0
           \/ (s[3] - s[1]) * (s[4] - s[2]) <= MaxPixels}

\* Sectors of more than max_conc_req pixels, which get_level_data fetches in
\* two to four batches: heights from 15 to 700, batches of exactly
\* max_conc_req pixels and smaller ones, last batches clipped at y2 and not.
BatchSectors ==
    {<<200, 100, 700, 121>>, <<100, 100, 600, 141>>, <<0, 0, 700, 29>>,
     <<0, 0, 700, 15>>, <<0, 0, 15, 667>>, <<685, 0, 700, 700>>,
     <<0, 0, 29, 689>>, <<0, 0, 100, 201>>, <<600, 400, 700, 700>>,
     <<0, 0, 50, 700>>}

\* headers['authorization']: key absent, empty string (line 49), or filled in.
AuthValues == {"absent", "empty", "token"}

\* Deterministic remote services: "mock" reports level x*10+y for the pixel
\* (x, y) of this code's convention, "mock1" reports x*10+y+1 (never 0).
Services == {"mock", "mock1"}

VARIABLES
    sector,        \* argument of get_level_data
    auth,          \* state of headers['authorization']
    service,       \* which deterministic remote service answers
    pc,            \* position of get_level_data
    valid,         \* outcome of is_valid(sector)
    batching,      \* get_level_data's locals h, w, num_col_batch, num_batches
    error,         \* exception that escaped get_level_data, "none" if none
    printed,       \* diagnostics printed so far
    data,          \* get_level_data's grid (its return value once returned)
    b,             \* batch index of the for loop
    sector_batch,  \* argument of the running get_level_data_concurrent
    data_batch,    \* grid returned by the last get_level_data_concurrent
    tasks,         \* fetch_pixel_level tasks created so far: tasks[x][y]
    completed,     \* pixels of the running batch, in the order their tasks ended
    results,       \* pixels_level_list, the value asyncio.gather returned
    issued,        \* sequence of the batch sectors passed to asyncio.run
    net_calls,     \* number of session.post requests sent
    calls,         \* number of get_level_data calls that have ended before
    previous,      \* outcome and grid of the call that ended last
    problems       \* results reported by "Problem on pixel", in order

vars == <<sector, auth, service, pc, valid, batching, error, printed, data, b,
          sector_batch, data_batch, tasks, completed, results, issued,
          net_calls, calls, previous, problems>>

\* the task of the pixel p, and the pixels that have a task (every row of
\* tasks has the same columns)
task(p) == tasks[p[1]][p[2]]
task_pixels ==
    IF DOMAIN tasks = {} THEN {}
    ELSE (DOMAIN tasks) \X (DOMAIN tasks[CHOOSE x \in DOMAIN tasks : TRUE])

(***************************************************************************)
(* Pure helpers.                                                           *)
(***************************************************************************)
\* np.zeros((h, w)): rows 0..h-1, columns 0..w-1
zeros(h, w) == [i \in 0 .. (h - 1) |-> [j \in 0 .. (w - 1) |-> 0]]

\* data.shape
shape(d) ==
    <<Cardinality(DOMAIN d),
      IF DOMAIN d = {} THEN 0 ELSE Cardinality(DOMAIN d[0])>>

\* t in np.ndindex(n, m): the iterator yields (i, j), 0 <= i < n, 0 <= j < m
in_ndindex(t, n, m) == 0 <= t[1] /\ t[1] < n /\ 0 <= t[2] /\ t[2] < m

\* np.ndindex(n, m) raises ValueError on a negative dimension
ndindex_raises(n, m) == n < 0 \/ m < 0

\* variant of is_valid that lets (x1, y1) reach (x2, y2): empty sectors pass
is_valid_accepts_empty(s) ==
    IF ndindex_raises(s[3], s[4]) THEN "ValueError"
    ELSE IF in_ndindex(<<s[1], s[2]>>, s[3] + 1, s[4] + 1)
            /\ in_ndindex(<<s[3], s[4]>>, max_x + 1, max_y + 1)
         THEN "True" ELSE "False"

\* variant of is_valid that tests (x2, y2) against np.ndindex(max_x, max_y)
is_valid_off_by_one(s) ==
    IF ndindex_raises(s[3], s[4]) THEN "ValueError"
    ELSE IF in_ndindex(<<s[1], s[2]>>, s[3], s[4])
            /\ in_ndindex(<<s[3], s[4]>>, max_x, max_y)
         THEN "True" ELSE "False"

\* is_valid, lines 129-135: "True", "False", or "ValueError" when the first
\* np.ndindex(x2, y2) cannot be built
is_valid(s) ==
    IF ndindex_raises(s[3], s[4]) THEN "ValueError"
    ELSE IF in_ndindex(<<s[1], s[2]>>, s[3], s[4])
            /\ in_ndindex(<<s[3], s[4]>>, max_x + 1, max_y + 1)
         THEN "True" ELSE "False"

\* variant of check_auth that only tests the presence of the key
check_auth_key_only(a) == ~(a = "absent")

\* check_auth, lines 59-63
check_auth(a) == ~(a = "absent" \/ a = "empty")

\* level of the pixel (x, y), in this code's convention
RemoteLevel(svc, x, y) == IF svc = "mock" THEN x * 10 + y ELSE x * 10 + y + 1

\* variant of payload that sends x and y as they are
payload_unswapped(pixel) == [x |-> pixel[1], y |-> pixel[2]]

\* fetch_pixel_level, lines 76-80: the wire payload inverts x and y
payload(pixel) == [x |-> pixel[2], y |-> pixel[1]]

\* the service's pixel (x, y) is this code's pixel (y, x)
ServiceLevel(svc, pl) == RemoteLevel(svc, pl.y, pl.x)


(***************************************************************************)
(* get_level_data: batching arithmetic.                                    *)
(***************************************************************************)
\* lines 105 and 153: h, w = x2 - x1, y2 - y1
sector_h(s) == s[3] - s[1]
sector_w(s) == s[4] - s[2]

\* line 154: num_col_batch = max_conc_req // h
num_col_batch(s) == max_conc_req \div sector_h(s)

\* np.ceil(a / k) for a >= 0, k > 0
ceil_div(a, k) == IF a % k = 0 THEN a \div k ELSE (a \div k) + 1

\* line 155: num_batches = np.int_(np.ceil(w / num_col_batch))
num_batches(s) == ceil_div(sector_w(s), num_col_batch(s))

\* lines 153-155: the locals h, w, num_col_batch and num_batches
locals(s) ==
    [h |-> sector_h(s), w |-> sector_w(s),
     num_col_batch |-> num_col_batch(s), num_batches |-> num_batches(s)]

min(a, c) == IF a <= c THEN a ELSE c

\* variant of new_data with the two axes exchanged
new_data_transposed(s) == zeros(sector_w(s), sector_h(s))

\* line 156: data = np.zeros((h, w))
new_data(s) == zeros(sector_h(s), sector_w(s))

\* variant of y1b that advances one column less than a batch holds
y1b_overlapping(s, bb) == s[2] + bb * (num_col_batch(s) - 1)

\* lines 161-163: the sub-sector of batch bb
y1b(s, bb) == s[2] + bb * num_col_batch(s)
\* variant of y2b that does not clip the last batch at y2
y2b_no_min(s, bb) == y1b(s, bb) + num_col_batch(s)
y2b(s, bb) == min(s[4], y1b(s, bb) + num_col_batch(s))
batch_sector(s, bb) == <<s[1], y1b(s, bb), s[3], y2b(s, bb)>>

(***************************************************************************)
(* get_level_data_concurrent: pixels, tasks, gather and scatter.           *)
(***************************************************************************)
\* line 107: the pixels of the sector, in np.ndindex (row-major) order
pixels(s) ==
    [n \in 1 .. (sector_h(s) * sector_w(s)) |->
        <<s[1] + ((n - 1) \div sector_w(s)), s[2] + ((n - 1) % sector_w(s))>>]

\* the pixels of pixels(s), as a set
pixel_set(s) == (s[1] .. (s[3] - 1)) \X (s[2] .. (s[4] - 1))

\* a fetch_pixel_level coroutine wrapped in a task by asyncio.gather
new_task(pixel, bb) ==
    [batch |-> bb, pc |-> "created", tries |-> 0, posts |-> 0, fails |-> 0,
     logs |-> 0, wire |-> payload(pixel), sent |-> <<>>, result |-> <<>>]

\* line 110: one task per pixel of the batch sector s, next to the tasks
\* old of the batches before; tasks are kept by row x and column y
create_tasks(old, s, bb) ==
    [x \in s[1] .. (s[3] - 1) |->
        [y \in (IF x \in DOMAIN old THEN DOMAIN old[x] ELSE {})
                    \cup (s[2] .. (s[4] - 1)) |->
            IF s[2] <= y /\ y < s[4] THEN new_task(<<x, y>>, bb) ELSE old[x][y]]]

\* variant of gather_complete that also counts the tasks that raised
gather_settled(s) ==
    ~\E n \in DOMAIN pixels(s) : task(pixels(s)[n]).pc \notin {"done", "raised"}

\* asyncio.gather returns once every task of the batch has returned its tuple
gather_complete(s) == ~\E n \in DOMAIN pixels(s) : task(pixels(s)[n]).pc # "done"

\* asyncio.gather raises as soon as one of its tasks has raised
gather_raised(s) == \E n \in DOMAIN pixels(s) : task(pixels(s)[n]).pc = "raised"

\* a task of the batch has not run its first step yet
gather_unstarted(s) ==
    \E n \in DOMAIN pixels(s) : task(pixels(s)[n]).pc = "created"

\* a task of the batch has not ended yet
gather_pending(s) ==
    \E n \in DOMAIN pixels(s) : task(pixels(s)[n]).pc \in {"created", "awaiting"}

\* line 110: the results, in the order of pixels whatever the completion order
pixels_level_list(s) == [n \in DOMAIN pixels(s) |-> task(pixels(s)[n]).result]

\* numpy index i on an axis of length n: valid when -n <= i < n, negative
\* indices count from the end
index_ok(i, n) == (0 - n) <= i /\ i < n
index_of(i, n) == IF i < 0 THEN i + n ELSE i

\* variant of scatter_one that indexes by (x, y) instead of (x - x1, y - y1)
scatter_one_no_origin(d, s, r) ==
    LET i == r[1]
        j == r[2]
    IN  IF index_ok(i, sector_h(s)) /\ index_ok(j, sector_w(s))
        THEN [d EXCEPT ![index_of(i, sector_h(s))][index_of(j, sector_w(s))] = r[3]]
        ELSE d

\* variant of cell_of that indexes by (x, y) instead of (x - x1, y - y1)
cell_of_no_origin(s, r) ==
    IF index_ok(r[1], sector_h(s)) /\ index_ok(r[2], sector_w(s))
    THEN <<index_of(r[1], sector_h(s)), index_of(r[2], sector_w(s))>>
    ELSE <<>>

\* line 114: the cell data[x - x1, y - y1] that the result r = (x, y, level)
\* is written to, <<>> when the index raises IndexError
cell_of(s, r) ==
    LET i == r[1] - s[1]
        j == r[2] - s[2]
    IN  IF index_ok(i, sector_h(s)) /\ index_ok(j, sector_w(s))
        THEN <<index_of(i, sector_h(s)), index_of(j, sector_w(s))>>
        ELSE <<>>

\* lines 113-116: data[x - x1, y - y1] = level, skipped on IndexError
scatter_one(d, s, r) ==
    IF cell_of(s, r) = <<>>
    THEN d
    ELSE [d EXCEPT ![cell_of(s, r)[1]][cell_of(s, r)[2]] = r[3]]

\* lines 112-116: the for loop over the results lo..hi, in order: the first
\* half of them, then the second half on the grid the first half left (a
\* grid without rows takes no write)
RECURSIVE scatter_range(_, _, _, _, _)
scatter_range(d, s, rs, lo, hi) ==
    IF lo > hi THEN d
    ELSE IF lo = hi THEN scatter_one(d, s, rs[lo])
    ELSE LET first_half == scatter_range(d, s, rs, lo, (lo + hi) \div 2)
         IN  IF DOMAIN first_half = {} THEN first_half
             ELSE scatter_range(first_half, s, rs, ((lo + hi) \div 2) + 1, hi)

\* lines 112-116: the for loop over the first n results
scatter(d, s, rs, n) == scatter_range(d, s, rs, 1, n)

\* lines 113-116: the results whose assignment raised, which the except
\* clause reports
scatter_problems(s, rs) ==
    LET raised(r) == cell_of(s, r) = <<>>
    IN  SelectSeq(rs, raised)

\* lines 106 and 112-117: the grid get_level_data_concurrent returns
concurrent_result(s, rs) ==
    scatter(zeros(sector_h(s), sector_w(s)), s, rs, Len(rs))

\* variant of copy_columns that writes the sub-grid from column 0
copy_columns_no_offset(d, s, sb, db) ==
    [i \in DOMAIN d |->
        [j \in DOMAIN d[i] |->
            IF 0 <= j /\ j < sb[4] - sb[2]
            THEN db[i][j]
            ELSE d[i][j]]]

\* line 165: data[:, (y1b - y1):(y2b - y1)] = data_batch
copy_columns(d, s, sb, db) ==
    [i \in DOMAIN d |->
        [j \in DOMAIN d[i] |->
            IF sb[2] - s[2] <= j /\ j < sb[4] - s[2]
            THEN db[i][j - (sb[2] - s[2])]
            ELSE d[i][j]]]


(***************************************************************************)
(* The state machine.                                                      *)
(***************************************************************************)
Init ==
    /\ sector \in Sectors
    /\ auth \in AuthValues
    /\ service \in Services
    /\ pc = "call"
    /\ valid = "none"
    /\ batching = <<>>
    /\ error = "none"
    /\ printed = {}
    /\ data = <<>>
    /\ b = 0
    /\ sector_batch = <<>>
    /\ data_batch = <<>>
    /\ tasks = <<>>
    /\ completed = <<>>
    /\ results = <<>>
    /\ issued = <<>>
    /\ net_calls = 0
    /\ calls = 0
    /\ previous = <<>>
    /\ problems = <<>>

\* lines 161-164 and 104-110: batch bb is handed to asyncio.run, which creates
\* the session and the tasks of the batch and awaits asyncio.gather
start_batch(bb) ==
    /\ sector_batch' = batch_sector(sector, bb)
    /\ issued' = Append(issued, batch_sector(sector, bb))
    /\ tasks' = create_tasks(tasks, batch_sector(sector, bb), bb)
    /\ completed' = <<>>
    /\ pc' = "gather"

\* get_level_data, lines 148-164: from the call to the first await
get_level_data ==
    /\ pc = "call"
    /\ valid' = is_valid(sector)
    /\ b' = 0
    /\ UNCHANGED <<problems, calls, previous, sector, auth, service, data_batch, results, net_calls>>
    /\ batching' = IF is_valid(sector) = "True" THEN locals(sector) ELSE <<>>
    /\ IF is_valid(sector) = "ValueError"
       THEN \* np.ndindex raises inside is_valid: the call raises
            /\ pc' = "raised"
            /\ error' = "ValueError"
            /\ UNCHANGED <<printed, data, sector_batch, tasks, completed, issued>>
       ELSE IF is_valid(sector) = "False"
       THEN \* lines 134 and 149
            /\ pc' = "returned"
            /\ printed' = printed \cup {"invalid sector"}
            /\ data' = zeros(1, 1)
            /\ UNCHANGED <<error, sector_batch, tasks, completed, issued>>
       ELSE IF ~check_auth(auth)
       THEN \* lines 156-157, 60 and 166
            /\ pc' = "returned"
            /\ printed' = printed \cup {"authorization key"}
            /\ data' = new_data(sector)
            /\ UNCHANGED <<error, sector_batch, tasks, completed, issued>>
       ELSE \* lines 156-164
            /\ printed' = printed \cup {"sending"}
            /\ data' = new_data(sector)
            /\ UNCHANGED error
            /\ IF num_batches(sector) > 0
               THEN start_batch(0)
               ELSE /\ pc' = "returned"
                    /\ UNCHANGED <<sector_batch, tasks, completed, issued>>

\* fetch_pixel_level, lines 82-84: tries = 0 at the top of the loop, then the
\* request is sent and the task waits for the response
post(p) ==
    /\ pc = "gather"
    /\ task(p).batch = b
    /\ task(p).pc = "created"
    /\ tasks' = [tasks EXCEPT ![p[1]][p[2]].pc = "awaiting",
                              ![p[1]][p[2]].tries = 0,
                              ![p[1]][p[2]].posts = @ + 1,
                              ![p[1]][p[2]].sent = Append(@, task(p).wire)]
    /\ net_calls' = net_calls + 1
    /\ UNCHANGED <<problems, calls, previous, batching, sector, auth, service, pc, valid, error, printed, data, b,
                   sector_batch, data_batch, completed, results, issued>>

\* lines 85-86: the response decodes and holds the level: the task returns
\* (x, y, level).  A task that is ready runs also when the coroutine that
\* awaited it has just ended with an exception, until asyncio.run cancels the
\* tasks
response_ok(p) ==
    /\ pc \in {"gather", "concurrent_raised"}
    /\ task(p).batch = b
    /\ task(p).pc = "awaiting"
    /\ tasks' = [tasks EXCEPT
                    ![p[1]][p[2]].pc = "done",
                    ![p[1]][p[2]].result =
                        <<p[1], p[2], ServiceLevel(service, task(p).wire)>>]
    /\ completed' = Append(completed, p)
    /\ UNCHANGED <<problems, calls, previous, batching, sector, auth, service, pc, valid, error, printed, data, b,
                   sector_batch, data_batch, results, issued, net_calls>>

\* lines 87-91: any exception of the request (network error, undecodable
\* body, missing level field).  tries was reset at line 82, so it becomes 1;
\* the periodic print needs tries % 10 == 0; then time.sleep(.1) is evaluated,
\* and the module never imports time: NameError leaves fetch_pixel_level.
response_error(p) ==
    /\ pc \in {"gather", "concurrent_raised"}
    /\ task(p).batch = b
    /\ task(p).pc = "awaiting"
    /\ tasks' = [tasks EXCEPT
                    ![p[1]][p[2]].pc = "raised",
                    ![p[1]][p[2]].fails = @ + 1,
                    ![p[1]][p[2]].tries = @ + 1,
                    ![p[1]][p[2]].logs =
                        IF (task(p).tries + 1) % 10 = 0 THEN @ + 1 ELSE @]
    /\ completed' = Append(completed, p)
    /\ UNCHANGED <<problems, calls, previous, batching, sector, auth, service, pc, valid, error, printed, data, b,
                   sector_batch, data_batch, results, issued, net_calls>>

\* line 110: asyncio.gather re-raises the exception of a task into
\* get_level_data_concurrent, which ends with it; the other tasks are left as
\* they are.  The first steps of all the tasks were queued before any task
\* could fail, so every task has sent its request by then.
gather_raise ==
    /\ pc = "gather"
    /\ gather_raised(sector_batch)
    /\ ~gather_unstarted(sector_batch)
    /\ pc' = "concurrent_raised"
    /\ UNCHANGED <<problems, calls, previous, batching, sector, auth, service, valid, error, printed, data, b,
                   sector_batch, data_batch, tasks, completed, results, issued,
                   net_calls>>

\* line 164: asyncio.run, whose coroutine ended with an exception, calls
\* cancel() on every task that is still pending
cancel_all_tasks ==
    /\ pc = "concurrent_raised"
    /\ pc' = "cancelling"
    /\ UNCHANGED <<problems, calls, previous, batching, sector, auth, service, valid, error, printed, data, b,
                   sector_batch, data_batch, tasks, completed, results, issued,
                   net_calls>>

\* lines 84-85: CancelledError is thrown into the task at its await; it is
\* not an Exception, so line 87 does not catch it and the task ends cancelled
cancel(p) ==
    /\ pc = "cancelling"
    /\ task(p).batch = b
    /\ task(p).pc = "awaiting"
    /\ tasks' = [tasks EXCEPT ![p[1]][p[2]].pc = "cancelled"]
    /\ completed' = Append(completed, p)
    /\ UNCHANGED <<problems, calls, previous, batching, sector, auth, service, pc, valid, error, printed, data, b,
                   sector_batch, data_batch, results, issued, net_calls>>

\* line 164: every task has ended; asyncio.run closes the loop and re-raises
\* the exception of the coroutine, and get_level_data raises
get_level_data_raise ==
    /\ pc = "cancelling"
    /\ ~gather_pending(sector_batch)
    /\ pc' = "raised"
    /\ error' = "NameError"
    /\ UNCHANGED <<problems, calls, previous, batching, sector, auth, service, valid, printed, data, b,
                   sector_batch, data_batch, tasks, completed, results, issued,
                   net_calls>>

\* line 110: every task of the batch has returned; asyncio.gather hands their
\* results to get_level_data_concurrent, which resumes
gather_return ==
    /\ pc = "gather"
    /\ gather_complete(sector_batch)
    /\ results' = pixels_level_list(sector_batch)
    /\ pc' = "scatter"
    /\ UNCHANGED <<problems, calls, previous, batching, sector, auth, service, valid, error, printed, data, b,
                   sector_batch, data_batch, tasks, completed, issued,
                   net_calls>>

\* lines 112-117: the results are scattered into the batch grid and
\* get_level_data_concurrent returns it
get_level_data_concurrent_return ==
    /\ pc = "scatter"
    /\ data_batch' = concurrent_result(sector_batch, results)
    /\ problems' = problems \o scatter_problems(sector_batch, results)
    /\ pc' = "batch_returned"
    /\ UNCHANGED <<calls, previous, batching, sector, auth, service, valid, error, printed, data, b,
                   sector_batch, tasks, completed, results, issued, net_calls>>

\* lines 160-166: the sub-grid is copied into data; the loop starts the next
\* batch or get_level_data returns data
copy_batch ==
    /\ pc = "batch_returned"
    /\ data' = copy_columns(data, sector, sector_batch, data_batch)
    /\ UNCHANGED <<problems, calls, previous, batching, sector, auth, service, valid, error, printed, data_batch,
                   results, net_calls>>
    /\ IF b + 1 < num_batches(sector)
       THEN /\ b' = b + 1
            /\ start_batch(b + 1)
       ELSE /\ pc' = "returned"
            /\ UNCHANGED <<b, sector_batch, tasks, completed, issued>>

Next ==
    \/ get_level_data
    \/ \E p \in task_pixels : post(p)
    \/ \E p \in task_pixels : response_ok(p)
    \/ \E p \in task_pixels : response_error(p)
    \/ gather_raise
    \/ cancel_all_tasks
    \/ \E p \in task_pixels : cancel(p)
    \/ get_level_data_raise
    \/ gather_return
    \/ get_level_data_concurrent_return
    \/ copy_batch

Spec == Init /\ [][Next]_vars

\* Number of get_level_data calls made on the same sector.
MaxCalls == 2

\* get_level_data is called again with the same sector once the call before
\* has returned or raised.  Nothing of the ended call is kept but what it
\* handed to its caller; the event loop of asyncio.run and its tasks are gone,
\* and the names data, b, ... are locals that the new call binds again.
call_again ==
    /\ pc \in {"returned", "raised"}
    /\ calls + 1 < MaxCalls
    /\ calls' = calls + 1
    /\ previous' = [outcome |-> pc, data |-> data]
    /\ pc' = "call"
    /\ valid' = "none"
    /\ batching' = <<>>
    /\ error' = "none"
    /\ printed' = {}
    /\ b' = 0
    /\ sector_batch' = <<>>
    /\ data_batch' = <<>>
    /\ tasks' = <<>>
    /\ completed' = <<>>
    /\ results' = <<>>
    /\ issued' = <<>>
    /\ net_calls' = 0
    /\ problems' = <<>>
    /\ UNCHANGED <<sector, auth, service, data>>

NextTwice ==
    \/ Next
    \/ call_again

SpecTwice == Init /\ [][NextTwice]_vars

\* Scheduling: the asyncio event loop runs every task that is ready, every
\* request sent is eventually answered (by a level or by an error), and the
\* driver's own steps are not delayed.
Fairness ==
    /\ WF_vars(get_level_data)
    /\ WF_vars(\E p \in task_pixels : post(p))
    /\ WF_vars(\E p \in task_pixels : response_ok(p) \/ response_error(p))
    /\ WF_vars(gather_raise)
    /\ WF_vars(cancel_all_tasks)
    /\ WF_vars(\E p \in task_pixels : cancel(p))
    /\ WF_vars(get_level_data_raise)
    /\ WF_vars(gather_return)
    /\ WF_vars(get_level_data_concurrent_return)
    /\ WF_vars(copy_batch)

SpecFair == Spec /\ Fairness

(***************************************************************************)
(* The batching arithmetic of get_level_data, lines 148-155, applied to    *)
(* sectors at the corners of the canvas.                                   *)
(***************************************************************************)
\* coordinates around the origin, the middle and the edge of the canvas, and
\* two inside it that give batches of 666 and of 100 columns
PlanCoords ==
    {-1, 0, 1, 15, 100, max_x \div 2, max_x - 1, max_x, max_x + 1}

PlanSectors == PlanCoords \X PlanCoords \X PlanCoords \X PlanCoords

\* lines 153-155 with the budget mcr: max_conc_req // h raises
\* ZeroDivisionError when h is 0, and w / num_col_batch raises it when
\* num_col_batch is 0
batching_raises(mcr, s) ==
    IF sector_h(s) = 0 THEN TRUE ELSE mcr \div sector_h(s) = 0

\* lines 153-155 with the budget mcr, when nothing raises
batching_of(mcr, s) ==
    [h |-> sector_h(s), w |-> sector_w(s),
     num_col_batch |-> mcr \div sector_h(s),
     num_batches |-> ceil_div(sector_w(s), mcr \div sector_h(s))]

InitPlan ==
    /\ sector \in PlanSectors
    /\ auth \in AuthValues
    /\ service \in Services
    /\ pc = "call"
    /\ valid = "none"
    /\ batching = <<>>
    /\ error = "none"
    /\ printed = {}
    /\ data = <<>>
    /\ b = 0
    /\ sector_batch = <<>>
    /\ data_batch = <<>>
    /\ tasks = <<>>
    /\ completed = <<>>
    /\ results = <<>>
    /\ issued = <<>>
    /\ net_calls = 0
    /\ calls = 0
    /\ previous = <<>>
    /\ problems = <<>>

\* get_level_data, lines 148-155: is_valid, then h, w, num_col_batch and
\* num_batches
get_level_data_plan ==
    /\ pc = "call"
    /\ valid' = is_valid(sector)
    /\ UNCHANGED <<problems, calls, previous, sector, auth, service, b, sector_batch, data_batch, tasks,
                   completed, results, issued, net_calls>>
    /\ IF is_valid(sector) = "ValueError"
       THEN /\ pc' = "raised"
            /\ error' = "ValueError"
            /\ UNCHANGED <<batching, printed, data>>
       ELSE IF is_valid(sector) = "False"
       THEN /\ pc' = "returned"
            /\ printed' = printed \cup {"invalid sector"}
            /\ data' = zeros(1, 1)
            /\ UNCHANGED <<batching, error>>
       ELSE IF batching_raises(max_conc_req, sector)
       THEN /\ pc' = "raised"
            /\ error' = "ZeroDivisionError"
            /\ UNCHANGED <<batching, printed, data>>
       ELSE /\ pc' = "planned"
            /\ batching' = batching_of(max_conc_req, sector)
            /\ UNCHANGED <<error, printed, data>>

NextPlan == get_level_data_plan

SpecPlan == InitPlan /\ [][NextPlan]_vars

(***************************************************************************)
(* Line 165 as a function of the grid, the sub-grid and the batch columns. *)
(* Its inputs are the values they have where asyncio.run has returned the  *)
(* grid of batch b (line 164) of a sector of more than max_conc_req        *)
(* pixels, every request of the batches 0..b having been answered with its *)
(* level in the order of the pixels.  Only line 165 is applied: the steps  *)
(* of the tasks that lead there, and the next iteration of the loop, are   *)
(* not part of SpecCopy.                                                   *)
(***************************************************************************)
\* lines 82-86 run once: the task of the pixel p of batch bb has sent its
\* request and returned (x, y, level)
done_task(p, bb, svc) ==
    [new_task(p, bb) EXCEPT
        !.pc = "done", !.posts = 1, !.sent = <<payload(p)>>,
        !.result = <<p[1], p[2], ServiceLevel(svc, payload(p))>>]

\* line 110: the tasks of the batches 0..bb of the sector s, all returned
returned_tasks(s, svc, bb) ==
    [x \in s[1] .. (s[3] - 1) |->
        [y \in s[2] .. (y2b(s, bb) - 1) |->
            done_task(<<x, y>>, (y - s[2]) \div num_col_batch(s), svc)]]

\* line 110: the value asyncio.gather returns for the batch sector sb
returned_results(sb, svc) ==
    [n \in DOMAIN pixels(sb) |->
        <<pixels(sb)[n][1], pixels(sb)[n][2],
          ServiceLevel(svc, payload(pixels(sb)[n]))>>]

\* lines 112-117: the grid get_level_data_concurrent returns for the batch
\* sector sb, each cell holding the level of its pixel
returned_grid(sb, svc) ==
    [i \in 0 .. (sector_h(sb) - 1) |->
        [j \in 0 .. (sector_w(sb) - 1) |->
            ServiceLevel(svc, payload(<<sb[1] + i, sb[2] + j>>))]]

\* lines 156 and 165: data after the copies of the batches 0..n-1: their
\* columns hold the levels, the others are still 0
copied(s, svc, n) ==
    [i \in 0 .. (sector_h(s) - 1) |->
        [j \in 0 .. (sector_w(s) - 1) |->
            IF j < y1b(s, n) - s[2]
            THEN ServiceLevel(svc, payload(<<s[1] + i, s[2] + j>>))
            ELSE 0]]

InitCopy ==
    /\ sector \in BatchSectors
    /\ auth = "token"
    /\ service \in Services
    /\ b \in 0 .. (num_batches(sector) - 1)
    /\ pc = "batch_returned"
    /\ valid = "True"
    /\ batching = locals(sector)
    /\ error = "none"
    /\ printed = {"sending"}
    /\ data = copied(sector, service, b)
    /\ sector_batch = batch_sector(sector, b)
    /\ results = returned_results(batch_sector(sector, b), service)
    /\ data_batch = returned_grid(batch_sector(sector, b), service)
    /\ tasks = returned_tasks(sector, service, b)
    /\ completed = pixels(batch_sector(sector, b))
    /\ issued = [i \in 1 .. (b + 1) |-> batch_sector(sector, i - 1)]
    /\ net_calls = sector_h(sector) * (y2b(sector, b) - sector[2])
    /\ calls = 0
    /\ previous = <<>>
    /\ problems = <<>>

\* line 165 alone: the sub-grid is copied into its columns of data
copy_sub_grid ==
    /\ pc = "batch_returned"
    /\ data' = copy_columns(data, sector, sector_batch, data_batch)
    /\ pc' = "copied"
    /\ UNCHANGED <<problems, calls, previous, batching, sector, auth, service, valid, error, printed, b,
                   sector_batch, data_batch, tasks, completed, results, issued,
                   net_calls>>

NextCopy == copy_sub_grid

SpecCopy == InitCopy /\ [][NextCopy]_vars

\* the state in which asyncio.run has returned the grid of a batch whose
\* requests were answered in the order of the pixels is the one InitCopy
\* gives
ReturnedBatchState ==
    (pc = "batch_returned" /\ completed = pixels(sector_batch)) =>
        /\ auth = "token"
        /\ valid = "True"
        /\ batching = locals(sector)
        /\ error = "none"
        /\ printed = {"sending"}
        /\ data = copied(sector, service, b)
        /\ sector_batch = batch_sector(sector, b)
        /\ results = returned_results(batch_sector(sector, b), service)
        /\ data_batch = returned_grid(batch_sector(sector, b), service)
        /\ tasks = returned_tasks(sector, service, b)
        /\ issued = [i \in 1 .. (b + 1) |-> batch_sector(sector, i - 1)]
        /\ net_calls = sector_h(sector) * (y2b(sector, b) - sector[2])
        /\ problems = <<>>


(***************************************************************************)
(* Properties.                                                             *)
(***************************************************************************)
\* get_level_data has returned the grid of a fetch: the sector passed
\* is_valid and the credentials passed check_auth
Fetched == pc = "returned" /\ valid = "True" /\ check_auth(auth)

\* tasks whose request is outstanding
Outstanding == {p \in task_pixels : task(p).pc = "awaiting"}

\* tasks that have not ended
Pending == {p \in task_pixels : task(p).pc \in {"created", "awaiting"}}

\* C1: when get_level_data returns the grid of a valid sector with
\* credentials configured, the cell (x - x1, y - y1) holds the level the
\* remote service reports for (x, y), for every pixel (x, y) of the sector,
\* whatever the order in which the requests completed.
C1_CellsHoldRemoteLevels ==
    Fetched =>
        \A x \in sector[1] .. (sector[3] - 1) :
            \A y \in sector[2] .. (sector[4] - 1) :
                data[x - sector[1]][y - sector[2]] = RemoteLevel(service, x, y)

\* C1 witness: the sector (0,0,2,2) against level = x*10+y has been fetched,
\* its four requests completing against the order of its pixels, and the grid
\* is [[0,1],[10,11]].
C1_Witness ==
    /\ Fetched
    /\ sector = <<0, 0, 2, 2>>
    /\ service = "mock"
    /\ completed = <<<<1, 1>>, <<1, 0>>, <<0, 1>>, <<0, 0>>>>
    /\ data = [i \in 0 .. 1 |-> [j \in 0 .. 1 |-> i * 10 + j]]

\* C2: for a sector that is_valid accepts, the grid get_level_data returns
\* has shape (x2 - x1, y2 - y1), with or without credentials.
C2_ShapeIsHeightByWidth ==
    (pc = "returned" /\ valid = "True") =>
        shape(data) = <<sector[3] - sector[1], sector[4] - sector[2]>>

\* C2 witness: a fetch of a sector higher than wide has returned.
C2_Witness ==
    /\ Fetched
    /\ sector[3] - sector[1] > sector[4] - sector[2]
    /\ shape(data) = <<3, 1>>

\* every task that has not ended belongs to the batch that asyncio.run is
\* running, and these tasks number at most max_conc_req
PendingInRunningBatch ==
    /\ \A p \in Pending :
          /\ pc \in {"gather", "concurrent_raised", "cancelling"}
          /\ task(p).batch = b
          /\ p \in pixel_set(sector_batch)
    /\ Cardinality(Pending) <= max_conc_req

\* the least n with n * k >= w, found by search
LeastCover(w, k) == CHOOSE n \in 0 .. w : n * k >= w /\ \A m \in 0 .. (n - 1) : m * k < w

IssuedFollowLoop ==
    (valid = "True" /\ check_auth(auth) /\ pc \notin {"call", "planned"}) =>
        /\ Len(issued) = b + 1
        /\ pc = "returned" => b = num_batches(sector) - 1
        /\ \A i \in 1 .. Len(issued) : issued[i] = batch_sector(sector, i - 1)
        /\ pc = "returned" =>
              /\ net_calls = (sector[3] - sector[1]) * (sector[4] - sector[2])
              /\ \A p \in pixel_set(sector) :
                    p \in task_pixels /\ task(p).posts = 1


\* C5: a fetch_pixel_level call whose first N responses are errors and whose
\* next response succeeds keeps retrying (it never raises), and once it has
\* ended it has sent N + 1 requests, printed floor(N / 10) periodic failure
\* logs and returned the level of its pixel.
C5_RetriesUntilSuccess ==
    \A p \in task_pixels :
        task(p).pc \in {"done", "raised"} =>
            /\ task(p).pc = "done"
            /\ task(p).posts = task(p).fails + 1
            /\ task(p).logs = task(p).fails \div 10
            /\ task(p).result = <<p[1], p[2], RemoteLevel(service, p[1], p[2])>>

\* C6: the failure of a request is absorbed inside fetch_pixel_level: no task
\* that received an error response has raised or been cancelled, and no
\* NameError has escaped the batch and get_level_data.
C6_FailuresAbsorbed ==
    /\ \A p \in task_pixels :
          task(p).fails > 0 => task(p).pc \in {"created", "awaiting", "done"}
    /\ error # "NameError"
    /\ \A p \in task_pixels : task(p).pc # "cancelled"

\* C7: get_level_data_concurrent never returns a partial result: once gather
\* has handed over its results, and once the batch grid is returned, every
\* pixel of the batch sector has a task that returned (x, y, level), it is in
\* the results, and the returned grid holds a level for each pixel.
C7_NoPartialResult ==
    (pc \in {"scatter", "batch_returned"}) =>
        /\ \A p \in pixel_set(sector_batch) :
              /\ p \in task_pixels
              /\ task(p).pc = "done"
              /\ Len(task(p).result) = 3
              /\ \E n \in DOMAIN results : results[n] = task(p).result
        /\ Len(results) = Cardinality(pixel_set(sector_batch))
        /\ pc = "batch_returned" =>
              \A p \in pixel_set(sector_batch) :
                  data_batch[p[1] - sector_batch[1]][p[2] - sector_batch[2]]
                      = task(p).result[3]

\* C7 witness: a batch of several pixels has returned its grid, its tasks
\* having ended against the order of its pixels.
C7_Witness ==
    /\ pc = "batch_returned"
    /\ Len(completed) >= 3
    /\ completed[1] = pixels(sector_batch)[Len(completed)]
    /\ \A p \in pixel_set(sector_batch) : task(p).pc = "done"

\* the sector lies in the canvas and is not empty
InCanvas(s) ==
    /\ 0 <= s[1] /\ s[1] < s[3] /\ s[3] <= 700
    /\ 0 <= s[2] /\ s[2] < s[4] /\ s[4] <= 700

\* the sector of the specification's data model, empty sectors included
InCanvasOrEmpty(s) ==
    /\ 0 <= s[1] /\ s[1] <= s[3] /\ s[3] <= 700
    /\ 0 <= s[2] /\ s[2] <= s[4] /\ s[4] <= 700

\* C8: for every invalid sector, get_level_data makes no network call and
\* returns a degenerate result without crashing.
C8_InvalidSectorDegenerate ==
    (pc # "call" /\ ~InCanvas(sector)) =>
        /\ pc = "returned"
        /\ error = "none"
        /\ net_calls = 0
        /\ tasks = <<>>
        /\ issued = <<>>
        /\ data = zeros(1, 1)

\* C9: without credentials (no 'authorization' key or an empty one),
\* get_level_data on a valid sector prints the diagnostic and returns without
\* a network call: no batch is started and no task is created.
C9_NoAuthNoCalls ==
    (pc # "call" /\ valid = "True" /\ auth \in {"absent", "empty"}) =>
        /\ pc = "returned"
        /\ "authorization key" \in printed
        /\ net_calls = 0
        /\ issued = <<>>
        /\ tasks = <<>>
        /\ data = zeros(sector[3] - sector[1], sector[4] - sector[2])

\* C9 witness: get_level_data has returned for a valid sector with an empty
\* authorization value.
C9_Witness ==
    /\ pc = "returned"
    /\ valid = "True"
    /\ auth = "empty"
    /\ sector[4] - sector[2] >= 2
    /\ "authorization key" \in printed

\* C10 as stated: is_valid accepts exactly the sectors with
\* 0 <= x1 <= x2 <= 700 and 0 <= y1 <= y2 <= 700.
C10_AcceptsEmptySectors ==
    pc # "call" => (valid = "True" <=> InCanvasOrEmpty(sector))

\* C10 amended: is_valid returns True exactly for the sectors with
\* 0 <= x1 < x2 <= 700 and 0 <= y1 < y2 <= 700; a sector with x1 = x2 or
\* y1 = y2 is not accepted.
C10_AcceptsNonEmptyInCanvas ==
    pc # "call" => (valid = "True" <=> InCanvas(sector))

\* C10 witness: is_valid has accepted a sector that touches the canvas edge
\* at 700.
C10_Witness ==
    /\ pc # "call"
    /\ valid = "True"
    /\ sector[3] = 700
    /\ sector[4] = 700

\* is_valid has rejected a sector of the canvas with x1 = x2
C10_RejectsEmpty ==
    /\ pc # "call"
    /\ valid = "False"
    /\ sector[1] = sector[3]
    /\ InCanvasOrEmpty(sector)


\* C11: for every sector that passes is_valid, max_conc_req // h does not
\* divide by zero and gives at least one column per batch, up to the largest
\* height, and the batch count ceil(w / num_col_batch) is defined: it is the
\* number of batches of num_col_batch columns that cover the width.
C11_ColumnsPerBatchDefined ==
    (pc # "call" /\ valid = "True") =>
        /\ error = "none"
        /\ pc = "planned"
        /\ batching.h >= 1
        /\ batching.num_col_batch >= 1
        /\ batching.num_col_batch * batching.h <= max_conc_req
        /\ batching.num_batches >= 1
        /\ batching.num_batches * batching.num_col_batch >= batching.w
        /\ (batching.num_batches - 1) * batching.num_col_batch < batching.w

\* C11 witness: the whole canvas, of the largest height 700, gets 14 columns
\* per batch and 50 batches.
C11_Witness ==
    /\ pc = "planned"
    /\ sector = <<0, 0, 700, 700>>
    /\ batching.h = 700
    /\ batching.num_col_batch = 14
    /\ batching.num_batches = 50


\* C12: liveness: a call of get_level_data on a valid sector with
\* credentials, against a service that fails each pixel finitely often (a
\* task of the model receives at most one error), eventually returns the
\* grid of the sector under fair scheduling.
C12_EventuallyReturns ==
    (pc = "call" /\ InCanvas(sector) /\ check_auth(auth)) ~> Fetched


\* C13: the retry delay is a cooperative suspension point: a task that
\* received an error and has not returned yet is waiting out its delay or
\* retrying, and meanwhile every other pending task of its batch can take
\* its next step (send its request, receive its response).
C13_RetryDelayYields ==
    \A p \in task_pixels :
        (task(p).fails > 0 /\ task(p).pc # "done") =>
            /\ task(p).pc \in {"sleeping", "created", "awaiting"}
            /\ \A q \in pixel_set(sector_batch) \ {p} :
                  /\ task(q).pc = "created" => ENABLED post(q)
                  /\ task(q).pc = "awaiting" => ENABLED response_ok(q)


\* C14: idempotence: a second call of get_level_data on the same sector of
\* the canvas, against the same deterministic service, ends like the first
\* one by returning a grid, and the two grids are identical, whatever the
\* interleavings and the transient failures of the two runs.
C14_SecondCallSameGrid ==
    (calls >= 1 /\ InCanvas(sector) /\ pc \in {"returned", "raised"}) =>
        /\ previous.outcome = "returned"
        /\ pc = "returned"
        /\ previous.data = data

\* two calls on the same sector that both returned gave identical grids
C14_ReturnedGridsAgree ==
    (calls >= 1 /\ pc = "returned" /\ previous.outcome = "returned") =>
        previous.data = data


\* C15: for every pixel (x, y) given to fetch_pixel_level, every request the
\* task sends, the first one and any resend, carries the payload with
\* pixel.x = y and pixel.y = x, and the tuple the task returns carries
\* (x, y) as given, with the level of that pixel.
C15_PayloadSwappedResultUnswapped ==
    \A p \in task_pixels :
        /\ Len(task(p).sent) = task(p).posts
        /\ \A n \in DOMAIN task(p).sent :
              task(p).sent[n].x = p[2] /\ task(p).sent[n].y = p[1]
        /\ task(p).pc = "done" =>
              /\ task(p).result[1] = p[1]
              /\ task(p).result[2] = p[2]
              /\ task(p).result[3] = RemoteLevel(service, p[1], p[2])

\* C15 witness: the task of pixel (0, 1) has sent pixel.x = 1, pixel.y = 0
\* and returned (0, 1, 1) against level = x*10+y.
C15_Witness ==
    /\ service = "mock"
    /\ <<0, 1>> \in task_pixels
    /\ task(<<0, 1>>).pc = "done"
    /\ task(<<0, 1>>).sent = <<[x |-> 1, y |-> 0]>>
    /\ task(<<0, 1>>).result = <<0, 1, 1>>


\* number of pixels of the sub-sectors of the batches 0..n-1 of the sector s
RECURSIVE SubSectorPixels(_, _)
SubSectorPixels(s, n) ==
    IF n = 0 THEN 0
    ELSE SubSectorPixels(s, n - 1)
         + (batch_sector(s, n - 1)[3] - batch_sector(s, n - 1)[1])
             * (batch_sector(s, n - 1)[4] - batch_sector(s, n - 1)[2])

\* the batches whose sub-sector holds the column y of the sector s
BatchesOfColumn(s, n, y) ==
    {bb \in 0 .. (n - 1) :
        batch_sector(s, bb)[2] <= y /\ y < batch_sector(s, bb)[4]}

WritersOf(i, j) ==
    {n \in DOMAIN results : cell_of(sector_batch, results[n]) = <<i, j>>}

\* C17: within a batch there is exactly one task per pixel of the batch
\* sector, gather returns one result per task, and once the batch grid is
\* returned each of its cells has been written exactly once, by the result
\* of the task of its own pixel.
C17_OneTaskOneCell ==
    /\ pc \in {"gather", "scatter", "batch_returned"} =>
          /\ {p \in task_pixels : task(p).batch = b} = pixel_set(sector_batch)
          /\ Cardinality(pixel_set(sector_batch)) = Len(pixels(sector_batch))
          /\ Len(pixels(sector_batch))
                = sector_h(sector_batch) * sector_w(sector_batch)
    /\ pc \in {"scatter", "batch_returned"} =>
          /\ Len(results) = Len(pixels(sector_batch))
          /\ \A i \in 0 .. (sector_h(sector_batch) - 1) :
                \A j \in 0 .. (sector_w(sector_batch) - 1) :
                    /\ Cardinality(WritersOf(i, j)) = 1
                    /\ \A n \in WritersOf(i, j) :
                          results[n]
                            = task(<<sector_batch[1] + i, sector_batch[2] + j>>).result
    /\ pc = "batch_returned" =>
          \A i \in DOMAIN data_batch : \A j \in DOMAIN data_batch[i] :
              \A n \in WritersOf(i, j) : data_batch[i][j] = results[n][3]

\* C17 witness: the batch (0,0,2,2) of four tasks has returned its grid
\* [[1,2],[11,12]] against level = x*10+y+1.
C17_Witness ==
    /\ pc = "batch_returned"
    /\ service = "mock1"
    /\ sector_batch = <<0, 0, 2, 2>>
    /\ Len(results) = 4
    /\ data_batch = [i \in 0 .. 1 |-> [j \in 0 .. 1 |-> i * 10 + j + 1]]


\* C18: the copy of the sub-grid of batch b into data (line 165) changes only
\* the columns [y1b - y1, y2b - y1) of that batch, which receive the
\* sub-grid: the columns of the earlier batches keep their values and the
\* columns of the later batches are still 0.
C18_CopyChangesOnlyBatchColumns ==
    [][(pc = "batch_returned" /\ pc' # "batch_returned") =>
          /\ DOMAIN data' = DOMAIN data
          /\ \A i \in DOMAIN data :
                /\ DOMAIN data'[i] = DOMAIN data[i]
                /\ \A j \in DOMAIN data[i] :
                      /\ j < sector_batch[2] - sector[2] =>
                            data'[i][j] = data[i][j]
                      /\ j >= sector_batch[4] - sector[2] =>
                            data'[i][j] = 0 /\ data[i][j] = 0
                      /\ (sector_batch[2] - sector[2] <= j
                            /\ j < sector_batch[4] - sector[2]) =>
                            data'[i][j] = data_batch[i][j - (sector_batch[2] - sector[2])]
      ]_vars

\* C18 witness: the sub-grid of the second of the three batches of the sector
\* (100,100,600,141) has been copied: the columns 0..19 of the first batch
\* and 20..39 of the second hold their levels (x*10+y+1, never 0) and the
\* column 40 of the last batch is still 0.
C18_Witness ==
    /\ pc = "copied"
    /\ b = 1
    /\ service = "mock1"
    /\ sector = <<100, 100, 600, 141>>
    /\ \A i \in 0 .. 499 :
          /\ \A j \in 0 .. 39 : data[i][j] = (100 + i) * 10 + (100 + j) + 1
          /\ data[i][40] = 0


\* every result asyncio.gather hands to the scatter loop carries a pixel of
\* the batch sector (line 86 returns the x, y the task was given), and the
\* loop reports no problem
ResultsInBatchSector ==
    /\ problems = <<>>
    /\ pc \in {"scatter", "batch_returned"} =>
          \A n \in DOMAIN results :
              /\ sector_batch[1] <= results[n][1] /\ results[n][1] < sector_batch[3]
              /\ sector_batch[2] <= results[n][2] /\ results[n][2] < sector_batch[4]

====
